---- MODULE Spec2Model ----
(***************************************************************************)
(* The MCPs sheet of excel-mcp-client: SheetManager (src/sheet_manager.py) *)
(* reconciling the servers and capabilities reported by MCPConnector       *)
(* (src/mcp_connector.py) into a grid of cells.                            *)
(*                                                                         *)
(* The sheet is a sparse map from <<row, col>> to the cell's value; a cell *)
(* outside the map is empty and reads as None.  Cell styles (colour, bold, *)
(* width) are not values and are not modelled.                             *)
(***************************************************************************)
EXTENDS Naturals, Sequences, FiniteSets, TLC

VARIABLES
    world,         \* which servers and faults the behaviour draws from (fixed by Init)
    sheetExists,   \* workbook.sheets holds a sheet named SHEET_NAME
    grid,          \* the values of the sheet's non-empty cells
    prev,          \* [exists, grid]: the sheet before the last operation
    src,           \* what the connector answered during the last update_sheet
    result,        \* what the last update_sheet returned
    trace,         \* per server the last update_sheet processed: [col, old, queried]
    op,            \* the operation that produced this state
    again,         \* the last two operations were update_sheet with the same answers
    calls,         \* operations performed so far
    input,         \* the arguments of the last operation, <<>> when it takes none
    toolCalls      \* the connector.call_tool and call_prompt invocations issued so far

vars == <<world, sheetExists, grid, prev, src, result, trace, op, again, calls, input,
          toolCalls>>

-----------------------------------------------------------------------------
(* Layout constants of SheetManager. *)

HEADER_ROW == 1
STATUS_ROW == 2
FIRST_DATA_ROW == 4

\* sheet.cells.last_cell.row: the last row of an Excel sheet
LAST_ROW == 1048576

\* The value xlwings reads from an empty cell.
None == "<None>"

\* _find_server_column's `return None`
NoColumn == 0

CHECK == "check"        \* the mark written at lines 216 and 227
DASH == "-"             \* the placeholder written at line 231

SectionNames == <<"TOOLS", "RESOURCES", "PROMPTS">>

-----------------------------------------------------------------------------
(* Bounds of the model. *)

\* Most servers the connector reports.
MaxServers == 2
\* Most capabilities one server lists, its three sections together.
MaxCaps == 2
\* Most operations in one behaviour.
MaxCalls == 2

AllServerNames == <<"A", "B", "C", "D", "E">>
ServerNames == {AllServerNames[i] : i \in 1..MaxServers}

ToolNames == {"t1", "t2"}
ResourceNames == {"r1"}
PromptNames == {"p1"}

-----------------------------------------------------------------------------
(* The grid surface: sheet.range((row, col)).value read and written. *)

Get(g, row, col) ==
    IF <<row, col>> \in DOMAIN g THEN g[<<row, col>>] ELSE None

\* Writing the empty string leaves the cell empty.
Put(g, row, col, v) ==
    IF v = ""
    THEN [p \in DOMAIN g \ {<<row, col>>} |-> g[p]]
    ELSE (<<row, col>> :> v) @@ g

EmptyGrid == [p \in {} |-> None]

-----------------------------------------------------------------------------
(* SheetManager's helpers. *)

\* _initialize_sheet_structure: the two labels of column A.
InitializeSheetStructure(g) ==
    Put(Put(g, HEADER_ROW, 1, "Capability Type"), STATUS_ROW, 1, "Status")

\* _get_next_column: the loop of lines 91-93 from (last_col, col), then line 95.
RECURSIVE NextColumnScan(_, _, _)
NextColumnScan(g, last_col, col) ==
    IF Get(g, HEADER_ROW, col) # None
    THEN NextColumnScan(g, col, col + 1)
    ELSE IF last_col > 1 THEN last_col + 1 ELSE 2

\* Variant: line 95 without its `+ 1`, the last used column instead of the one after it.
GetNextColumn_Last(g) ==
    LET next == NextColumnScan(g, 1, 2)
    IN  IF next > 2 THEN next - 1 ELSE 2

GetNextColumn(g) == NextColumnScan(g, 1, 2)

\* _find_server_column: the loop of lines 110-116 from col.
RECURSIVE FindServerScan(_, _, _)
FindServerScan(g, server_name, col) ==
    LET value == Get(g, HEADER_ROW, col)
    IN  IF value = None THEN NoColumn
        ELSE IF value = server_name THEN col
        ELSE FindServerScan(g, server_name, col + 1)

\* Variant: the scan of line 108 starts at column C.
FindServerColumn_FromC(g, server_name) == FindServerScan(g, server_name, 3)

FindServerColumn(g, server_name) == FindServerScan(g, server_name, 2)

\* Variant: nothing is cleared.
ClearColumn_Nothing(g, col) == g

\* Variant: the rows are cleared in every server column, not in `col` alone.
ClearColumn_AllColumns(g, col) ==
    [p \in {q \in DOMAIN g : ~(q[2] >= 2 /\ q[1] >= STATUS_ROW)} |-> g[p]]

\* _clear_column: clear_contents of (STATUS_ROW, col) .. (last_row, col).
ClearColumn(g, col) ==
    IF LAST_ROW >= STATUS_ROW
    THEN [p \in {q \in DOMAIN g : ~(q[2] = col /\ q[1] >= STATUS_ROW /\ q[1] <= LAST_ROW)}
            |-> g[p]]
    ELSE g

\* The loop of lines 221-228 over capabilities[i..], writing from current_row.
RECURSIVE WriteCapabilities(_, _, _, _, _)
WriteCapabilities(g, col, current_row, capabilities, i) ==
    IF i > Len(capabilities) THEN g
    ELSE LET name == capabilities[i]
             g1 == IF Get(g, current_row, 1) # name
                   THEN Put(g, current_row, 1, name)
                   ELSE g
             g2 == Put(g1, current_row, col, CHECK)
         IN  WriteCapabilities(g2, col, current_row + 1, capabilities, i + 1)

\* _write_capability_section: the grid it leaves and the row it returns.
WriteCapabilitySection(g, col, start_row, section_name, capabilities) ==
    LET g1 == IF Get(g, start_row, 1) # section_name
              THEN Put(g, start_row, 1, section_name)
              ELSE g
    IN  IF capabilities # <<>>
        THEN [grid |-> WriteCapabilities(Put(g1, start_row, col, CHECK), col,
                                         start_row + 1, capabilities, 1),
              row  |-> start_row + 1 + Len(capabilities)]
        ELSE [grid |-> Put(g1, start_row, col, DASH),
              row  |-> start_row + 1]

(* _write_server_column.  Its writes happen in five steps: the header cell,  *)
(* the status cell, and the three sections.  `stop` is the number of steps   *)
(* completed before a write raised; 5 when none did.                         *)
WriteServerColumn(g, col, server, stop) ==
    LET g1 == IF stop >= 1 THEN Put(g, HEADER_ROW, col, server.name) ELSE g
        g2 == IF stop >= 2 THEN Put(g1, STATUS_ROW, col, server.status) ELSE g1
        s3 == WriteCapabilitySection(g2, col, FIRST_DATA_ROW, SectionNames[1], server.tools)
        s4 == WriteCapabilitySection(s3.grid, col, s3.row + 1, SectionNames[2],
                                     server.resources)
        s5 == WriteCapabilitySection(s4.grid, col, s4.row + 1, SectionNames[3],
                                     server.prompts)
    IN  IF stop >= 5 THEN s5.grid
        ELSE IF stop = 4 THEN s4.grid
        ELSE IF stop = 3 THEN s3.grid
        ELSE g2

-----------------------------------------------------------------------------
(* What the connector answers about one server during one update_sheet:     *)
(*   name, status, error  check_server_connection's MCPServer               *)
(*   tools, resources, prompts  get_all_capabilities' lists (names)          *)
(*   fail   "none"; "caps": get_all_capabilities raises (message CapsError); *)
(*          "write": a write to the sheet raises (message WriteError) after  *)
(*          `stop` steps of _write_server_column                             *)

CapsError == "m"
WriteError == "w"

\* Sequences without repetition over S, of length at most n.
RECURSIVE ListsOver(_, _)
ListsOver(S, n) ==
    IF n = 0 THEN {<<>>}
    ELSE LET shorter == ListsOver(S, n - 1)
         IN  shorter \cup {Append(l, x) : l \in shorter, x \in S} 

NoRepeat(l) == \A i, j \in 1..Len(l) : i # j => l[i] # l[j]

CapLists(S, n) == {l \in ListsOver(S, n) : NoRepeat(l)}

\* get_all_capabilities' answers with at most n capabilities.
Capabilities(n) ==
    {c \in [tools : CapLists(ToolNames, n), resources : CapLists(ResourceNames, n),
            prompts : CapLists(PromptNames, n)] :
        Len(c.tools) + Len(c.resources) + Len(c.prompts) <= n}

Answer(n, st, e, f, k, t, r, p) ==
    [name |-> n, status |-> st, error |-> e, fail |-> f, stop |-> k,
     tools |-> t, resources |-> r, prompts |-> p]

\* The answers about the servers `names` in which every call returns.
ReliableAnswers(names, n) ==
    {Answer(s, "Disconnected", e, "none", 5, <<>>, <<>>, <<>>) :
        s \in names, e \in {"", "e"}}
    \cup {Answer(s, "Connected", "", "caps", 5, <<>>, <<>>, <<>>) : s \in names}
    \cup {Answer(s, "Connected", "", "none", 5, c.tools, c.resources, c.prompts) :
            s \in names, c \in Capabilities(n)}

(* The answers after which a write of _write_server_column raises.  The     *)
(* lists of the sections the write never reaches are left empty: they are   *)
(* never read.                                                              *)
ReadBefore(n, k) ==
    {c \in Capabilities(n) : /\ c.prompts = <<>>
                             /\ k < 4 => c.resources = <<>>
                             /\ k < 3 => c.tools = <<>>}

FaultyAnswers(names, n) ==
    UNION {{Answer(s, "Connected", "", "write", k, c.tools, c.resources, c.prompts) :
                s \in names, c \in ReadBefore(n, k)} : k \in 0..4}

\* discover_servers' lists: distinct servers, in any order.
SourcesOver(answers, n) ==
    {l \in UNION {[1..k -> answers] : k \in 0..n} :
        \A i, j \in 1..Len(l) : i # j => l[i].name # l[j].name}

Sources == SourcesOver(ReliableAnswers(ServerNames, MaxCaps), MaxServers)

\* One server more than ServerNames.
ThreeSources ==
    SourcesOver(ReliableAnswers(ServerNames \cup {AllServerNames[MaxServers + 1]}, MaxCaps),
                MaxServers + 1)

\* Writes may raise; one capability less per server.
FaultSources ==
    SourcesOver(ReliableAnswers(ServerNames, MaxCaps - 1)
                    \cup FaultyAnswers(ServerNames, MaxCaps - 1), MaxServers)

\* Every call returns; one capability less per server.
SheetSources == SourcesOver(ReliableAnswers(ServerNames, MaxCaps - 1), MaxServers)

(* discover_servers takes a server's name from server_data.get("name", "")  *)
(* (mcp_connector.py line 126): a server may be named by the empty string.   *)
NamesWithEmpty == ServerNames \cup {""}

(* One answer of each kind per server: not connected, capability retrieval  *)
(* raising, written in full with or without a tool, and a write raising      *)
(* after the header cell.                                                    *)
StepAnswers(names) ==
    {a \in ReliableAnswers(names, MaxCaps - 1) \cup FaultyAnswers(names, MaxCaps - 1) :
        /\ a.error = ""
        /\ a.resources = <<>>
        /\ a.prompts = <<>>
        /\ a.tools \in {<<>>, <<"t1">>}
        /\ a.stop \in {1, 5}}

StepSources == SourcesOver(StepAnswers(ServerNames), MaxServers)

\* Every call returns; a server may have the empty name.
NameSources == SourcesOver(ReliableAnswers(NamesWithEmpty, MaxCaps - 1), MaxServers)

-----------------------------------------------------------------------------
(* update_sheet *)

\* Variant: an old column is reused without being cleared.
ResolveColumn_NoClear(g, server_name) ==
    LET found == FindServerColumn(g, server_name)
    IN  IF found = NoColumn
        THEN [col |-> GetNextColumn(g), old |-> FALSE, grid |-> g]
        ELSE [col |-> found, old |-> TRUE, grid |-> g]

\* Lines 267-272 and 278-282: the server's column, cleared when it is an old one.
ResolveColumn(g, server_name) ==
    LET found == FindServerColumn(g, server_name)
    IN  IF found = NoColumn
        THEN [col |-> GetNextColumn(g), old |-> FALSE, grid |-> g]
        ELSE [col |-> found, old |-> TRUE, grid |-> ClearColumn(g, found)]

\* Variant: the message without the server's name.
ErrorString_NoName(server_name, message) == message

ErrorString(server_name, message) == server_name \o ": " \o message

(* One iteration of the loop of lines 255-298 on the loop's state            *)
(* st = [grid, connected, errors, trace].  A trace entry records the column  *)
(* resolved for the server (NoColumn when none was), whether that column was *)
(* an old one, and whether get_all_capabilities was called.                  *)
ProcessServer(st, sv) ==
    IF sv.status = "Connected"
    THEN IF sv.fail = "caps"
         THEN [st EXCEPT !.connected = @ + 1,
                         !.errors = Append(@, ErrorString(sv.name, CapsError)),
                         !.trace = Append(@, [col |-> NoColumn, old |-> FALSE,
                                              queried |-> TRUE])]
         ELSE LET rc == ResolveColumn(st.grid, sv.name)
              IN  [grid |-> WriteServerColumn(rc.grid, rc.col, sv, sv.stop),
                   connected |-> st.connected + 1,
                   errors |-> IF sv.fail = "write"
                              THEN Append(st.errors, ErrorString(sv.name, WriteError))
                              ELSE st.errors,
                   trace |-> Append(st.trace, [col |-> rc.col, old |-> rc.old,
                                               queried |-> TRUE])]
    ELSE LET rc == ResolveColumn(st.grid, sv.name)
             g1 == Put(rc.grid, HEADER_ROW, rc.col, sv.name)
             g2 == Put(g1, STATUS_ROW, rc.col, sv.status)
         IN  [grid |-> g2,
              connected |-> st.connected,
              errors |-> Append(st.errors,
                                ErrorString(sv.name,
                                    IF sv.error # "" THEN sv.error
                                    ELSE "Connection failed")),
              trace |-> Append(st.trace, [col |-> rc.col, old |-> rc.old,
                                          queried |-> FALSE])]

RECURSIVE ProcessServers(_, _, _)
ProcessServers(st, servers, i) ==
    IF i > Len(servers) THEN st
    ELSE ProcessServers(ProcessServer(st, servers[i]), servers, i + 1)

\* ensure_sheet_exists: the sheet's cells after it.
EnsureSheetExists(exists, g) ==
    IF exists THEN g ELSE InitializeSheetStructure(EmptyGrid)

\* Variant: update_sheet without the early return of lines 248-249.
UpdateSheetResult_NoEmptyCheck(exists, g, servers) ==
    LET st == ProcessServers([grid |-> EnsureSheetExists(exists, g), connected |-> 0,
                              errors |-> <<>>, trace |-> <<>>], servers, 1)
    IN  [grid |-> st.grid, trace |-> st.trace,
         result |-> <<Len(servers), st.connected, st.errors>>]

\* update_sheet on grid g with the connector answering `servers`.
UpdateSheetResult(exists, g, servers) ==
    LET sheet == EnsureSheetExists(exists, g)
    IN  IF servers = <<>>
        THEN [grid |-> sheet, trace |-> <<>>,
              result |-> <<0, 0, <<"No MCP servers found">>>>]
        ELSE LET st == ProcessServers([grid |-> sheet, connected |-> 0,
                                       errors |-> <<>>, trace |-> <<>>], servers, 1)
             IN  [grid |-> st.grid, trace |-> st.trace,
                  result |-> <<Len(servers), st.connected, st.errors>>]

UpdateSheet(servers) ==
    \E r \in {UpdateSheetResult(sheetExists, grid, servers)} :
        /\ sheetExists' = TRUE
        /\ grid' = r.grid
        /\ prev' = [exists |-> sheetExists, grid |-> grid]
        /\ src' = servers
        /\ result' = r.result
        /\ trace' = r.trace
        /\ again' = (op = "update_sheet" /\ src = servers)
        /\ op' = "update_sheet"
        /\ calls' = calls + 1
        /\ UNCHANGED <<world, toolCalls>>

-----------------------------------------------------------------------------
(* The worlds a behaviour runs in: the servers the connector knows and the  *)
(* operations it performs.                                                  *)

SourcesIn(w) ==
    CASE w = "plain" -> Sources
      [] w = "three" -> ThreeSources
      [] w = "faults" -> FaultSources
      [] w = "sheet" -> SheetSources
      [] w = "names" -> NameSources
      [] w = "steps" -> StepSources

CallsIn(w) ==
    CASE w = "plain" -> MaxCalls
      [] w = "three" -> MaxCalls - 1
      [] w = "faults" -> MaxCalls
      [] w = "locate" -> 1
      [] w = "plugin" -> 1
      [] w = "runs" -> 1
      [] w = "sheet" -> MaxCalls
      [] w = "names" -> MaxCalls
      [] w = "steps" -> MaxCalls

InitIn(w) ==
    /\ world = w
    /\ sheetExists = FALSE
    /\ grid = EmptyGrid
    /\ prev = [exists |-> FALSE, grid |-> EmptyGrid]
    /\ src = <<>>
    /\ result = <<0, 0, <<>>>>
    /\ trace = <<>>
    /\ op = "init"
    /\ again = FALSE
    /\ calls = 0
    /\ input = <<>>
    /\ toolCalls = <<>>

Update ==
    /\ calls < CallsIn(world)
    /\ \E servers \in SourcesIn(world) : UpdateSheet(servers) /\ input' = <<>>

Next == Update

Init == InitIn("plain")

Spec == Init /\ [][Next]_vars

\* Three servers, one operation.
SpecThree == InitIn("three") /\ [][Next]_vars

\* Two servers, writes to the sheet may raise.
SpecFaults == InitIn("faults") /\ [][Next]_vars

-----------------------------------------------------------------------------
(* Reading the sheet. *)

\* get_capability_at_cell's upward search of lines 328-336 from search_row:
\* the section header found, None when the search passes FIRST_DATA_ROW.
RECURSIVE SectionAbove(_, _)
SectionAbove(g, search_row) ==
    IF search_row >= FIRST_DATA_ROW
    THEN LET value == Get(g, search_row, 1)
         IN  IF value \in {SectionNames[k] : k \in 1..3} THEN value
             ELSE SectionAbove(g, search_row - 1)
    ELSE None

Elems(l) == {l[i] : i \in 1..Len(l)}

\* The list a server's answer gives for a section header.
ListFor(sv, section) ==
    CASE section = "TOOLS" -> sv.tools
      [] section = "RESOURCES" -> sv.resources
      [] section = "PROMPTS" -> sv.prompts

\* The rows from FIRST_DATA_ROW down whose column-1 cell holds a capability name.
LabelRows(g) ==
    {q[1] : q \in {p \in DOMAIN g : /\ p[2] = 1
                                    /\ p[1] >= FIRST_DATA_ROW
                                    /\ g[p] \notin {SectionNames[k] : k \in 1..3}}}

\* The non-empty cells of column col from row `from` down, as row -> value.
ColumnFrom(g, col, from) ==
    [r \in {p[1] : p \in {q \in DOMAIN g : q[2] = col /\ q[1] >= from}} |-> g[<<r, col>>]]

\* The columns from B on whose header cell is not empty.
HeaderCols(g) == {p[2] : p \in {q \in DOMAIN g : q[1] = HEADER_ROW /\ q[2] >= 2}}

SrcNames == {src[i].name : i \in 1..Len(src)}

\* The servers of the last update_sheet that were Connected and written in full.
Listed == {i \in 1..Len(src) : src[i].status = "Connected" /\ src[i].fail = "none"}

Updated == op = "update_sheet"

-----------------------------------------------------------------------------
(* get_capability_at_cell *)

\* Python's None as a return value.
Nothing == <<>>

UpperLetters == "ABCDEFGHIJKLMNOPQRSTUVWXYZ"
LowerLetters == "abcdefghijklmnopqrstuvwxyz"

\* str.lower on one character.
LowerChar(c) ==
    IF \E i \in 1..Len(UpperLetters) : SubSeq(UpperLetters, i, i) = c
    THEN LET i == CHOOSE j \in 1..Len(UpperLetters) : SubSeq(UpperLetters, j, j) = c
         IN  SubSeq(LowerLetters, i, i)
    ELSE c

\* str.lower
RECURSIVE Lower(_)
Lower(str) ==
    IF Len(str) = 0 THEN ""
    ELSE LowerChar(SubSeq(str, 1, 1)) \o Lower(SubSeq(str, 2, Len(str)))

\* str.rstrip('s'): every trailing 's' is removed.
RECURSIVE RStripS(_)
RStripS(str) ==
    IF Len(str) > 0 /\ SubSeq(str, Len(str), Len(str)) = "s"
    THEN RStripS(SubSeq(str, 1, Len(str) - 1))
    ELSE str

\* Variant: the label cell of line 323 is not looked at.
GetCapabilityAtCell_NoLabelCheck(g, row, col) ==
    LET server_name == Get(g, HEADER_ROW, col)
        value == SectionAbove(g, row)
    IN  IF server_name = None \/ value = None THEN Nothing
        ELSE <<server_name, RStripS(Lower(value)), Get(g, row, 1)>>

\* get_capability_at_cell: <<server_name, capability_type, capability_name>> or Nothing.
GetCapabilityAtCell(g, row, col) ==
    LET server_name == Get(g, HEADER_ROW, col)
        capability_name == Get(g, row, 1)
        value == SectionAbove(g, row)
    IN  IF server_name = None THEN Nothing
        ELSE IF capability_name = None THEN Nothing
        ELSE IF value = None THEN Nothing
        ELSE <<server_name, RStripS(Lower(value)), capability_name>>

Locate(row, col) ==
    /\ sheetExists
    /\ result' = GetCapabilityAtCell(grid, row, col)
    /\ input' = <<row, col>>
    /\ prev' = [exists |-> sheetExists, grid |-> grid]
    /\ again' = FALSE
    /\ op' = "get_capability_at_cell"
    /\ calls' = calls + 1
    /\ UNCHANGED <<world, sheetExists, grid, src, trace, toolCalls>>

(* The locator on any sheet: the sheet is the user's, and the locator reads  *)
(* whatever it holds.  The sheets drawn have column-1 cells in rows          *)
(* FIRST_DATA_ROW..MaxRow, a cell in the row above them, and two header      *)
(* cells.                                                                    *)
MaxRow == 6
MaxCol == 3

LabelValues == {None, "TOOLS", "RESOURCES", "PROMPTS", "tools", "get_weather"}

\* The sheet whose non-empty cells are those f gives a value.
GridOf(f) == [p \in {q \in DOMAIN f : f[q] # None} |-> f[p]]

LocateGrids ==
    {GridOf((<<HEADER_ROW, 1>> :> a) @@ (<<HEADER_ROW, 2>> :> b)
            @@ (<<FIRST_DATA_ROW - 1, 1>> :> c) @@ d) :
        a \in {None, "Capability Type"}, b \in {None, "weather-mcp"},
        c \in {None, "TOOLS"},
        d \in [{<<r, 1>> : r \in FIRST_DATA_ROW..MaxRow} -> LabelValues]}

InitLocate ==
    /\ world = "locate"
    /\ sheetExists = TRUE
    /\ grid \in LocateGrids
    /\ prev = [exists |-> FALSE, grid |-> EmptyGrid]
    /\ src = <<>>
    /\ result = <<0, 0, <<>>>>
    /\ trace = <<>>
    /\ op = "init"
    /\ again = FALSE
    /\ calls = 0
    /\ input = <<>>
    /\ toolCalls = <<>>

LocateAny ==
    /\ calls < CallsIn(world)
    /\ \E row \in 1..(MaxRow + 1), col \in 1..MaxCol : Locate(row, col)

NextLocate == LocateAny

SpecLocate == InitLocate /\ [][NextLocate]_vars

-----------------------------------------------------------------------------
(* clear_sheet and ensure_sheet_exists as operations of their own. *)

\* Variant: the cells are not cleared before the layout is written again.
ClearSheetGrid_NoClear(exists, g) ==
    IF exists THEN InitializeSheetStructure(g) ELSE g

\* clear_sheet: the sheet's cells after it.  sheet.clear() empties every cell.
ClearSheetGrid(exists, g) ==
    IF exists THEN InitializeSheetStructure(EmptyGrid) ELSE g

ClearSheet ==
    /\ calls < CallsIn(world)
    /\ grid' = ClearSheetGrid(sheetExists, grid)
    /\ prev' = [exists |-> sheetExists, grid |-> grid]
    /\ result' = Nothing
    /\ input' = <<>>
    /\ again' = FALSE
    /\ op' = "clear_sheet"
    /\ calls' = calls + 1
    /\ UNCHANGED <<world, sheetExists, src, trace, toolCalls>>

EnsureSheet ==
    /\ calls < CallsIn(world)
    /\ grid' = EnsureSheetExists(sheetExists, grid)
    /\ sheetExists' = TRUE
    /\ prev' = [exists |-> sheetExists, grid |-> grid]
    /\ result' = Nothing
    /\ input' = <<>>
    /\ again' = FALSE
    /\ op' = "ensure_sheet_exists"
    /\ calls' = calls + 1
    /\ UNCHANGED <<world, src, trace, toolCalls>>

(* The workbook handed to SheetManager either has no sheet named SHEET_NAME *)
(* or has one that nothing was written to yet.                               *)
InitSheet ==
    /\ world = "sheet"
    /\ sheetExists \in BOOLEAN
    /\ grid = EmptyGrid
    /\ prev = [exists |-> FALSE, grid |-> EmptyGrid]
    /\ src = <<>>
    /\ result = <<0, 0, <<>>>>
    /\ trace = <<>>
    /\ op = "init"
    /\ again = FALSE
    /\ calls = 0
    /\ input = <<>>
    /\ toolCalls = <<>>

NextSheet == Update \/ ClearSheet \/ EnsureSheet \/ LocateAny

SpecSheet == InitSheet /\ [][NextSheet]_vars

\* update_sheet and clear_sheet on a new workbook, servers of any name.
NextNames == Update \/ ClearSheet

SpecNames == InitIn("names") /\ [][NextNames]_vars

-----------------------------------------------------------------------------
(* update_sheet step by step.  While it runs, op is "running", result holds  *)
(* (len(servers), connected_count, errors) as the loop of line 255 has them  *)
(* so far (line 303 returns that tuple), and input is the position reached:  *)
(*   pending   the servers still to visit, the one in process first          *)
(*   phase     "check": lines 258-264; "find": the scan of                   *)
(*             _find_server_column; "next": the scan of _get_next_column;    *)
(*             "clear": _clear_column; "write": the writes to the column     *)
(*   col, last_col   the locals of the scan in progress, then the column     *)
(*   old       the column was found by _find_server_column                   *)

Pos(pending, phase, col, last_col, old) ==
    [pending |-> pending, phase |-> phase, col |-> col, last_col |-> last_col, old |-> old]

\* Variant: the loop passes over the server after the one it processed.
Advance_SkipNext(pending) ==
    IF Len(pending) > 1 THEN Tail(Tail(pending)) ELSE <<>>

\* The for statement of line 255 moving to the next server.
Advance(pending) == Tail(pending)

\* Lines 243-252: the sheet is ensured, the servers discovered, the loop set up.
BeginUpdate ==
    /\ op # "running"
    /\ calls < CallsIn(world)
    /\ \E servers \in SourcesIn(world) :
          /\ src' = servers
          /\ input' = Pos(servers, "check", 0, 0, FALSE)
          /\ result' = IF servers = <<>>
                       THEN <<0, 0, <<"No MCP servers found">>>>
                       ELSE <<Len(servers), 0, <<>>>>
          /\ op' = IF servers = <<>> THEN "update_sheet" ELSE "running"
    /\ grid' = EnsureSheetExists(sheetExists, grid)
    /\ sheetExists' = TRUE
    /\ prev' = [exists |-> sheetExists, grid |-> grid]
    /\ trace' = <<>>
    /\ again' = FALSE
    /\ calls' = calls + 1
    /\ UNCHANGED <<world, toolCalls>>

(* Lines 258-264: the connection check and, for a Connected server, the     *)
(* capability retrieval; when that raises, lines 297-298 record the error    *)
(* and the loop goes on.                                                     *)
CheckServer ==
    /\ op = "running"
    /\ input.phase = "check"
    /\ input.pending # <<>>
    /\ \E sv \in {Head(input.pending)} :
          IF sv.status = "Connected" /\ sv.fail = "caps"
          THEN /\ result' = <<result[1], result[2] + 1,
                              Append(result[3], ErrorString(sv.name, CapsError))>>
               /\ trace' = Append(trace, [col |-> NoColumn, old |-> FALSE,
                                          queried |-> TRUE])
               /\ input' = Pos(Advance(input.pending), "check", 0, 0, FALSE)
          ELSE /\ result' = <<result[1],
                              IF sv.status = "Connected" THEN result[2] + 1 ELSE result[2],
                              result[3]>>
               /\ trace' = trace
               /\ input' = Pos(input.pending, "find", 2, 0, FALSE)
    /\ UNCHANGED <<world, sheetExists, grid, prev, src, op, again, calls, toolCalls>>

\* _find_server_column: one pass of the loop of lines 110-116.
FindStep ==
    /\ op = "running"
    /\ input.phase = "find"
    /\ \E value \in {Get(grid, HEADER_ROW, input.col)} :
          input' = IF value = None
                   THEN [input EXCEPT !.phase = "next", !.col = 2, !.last_col = 1]
                   ELSE IF value = Head(input.pending).name
                   THEN [input EXCEPT !.phase = "clear", !.old = TRUE]
                   ELSE [input EXCEPT !.col = @ + 1]
    /\ UNCHANGED <<world, sheetExists, grid, prev, src, result, trace, op, again, calls,
                   toolCalls>>

\* _get_next_column: one test of the loop of lines 91-93, then line 95.
NextColumnStep ==
    /\ op = "running"
    /\ input.phase = "next"
    /\ input' = IF Get(grid, HEADER_ROW, input.col) # None
                THEN [input EXCEPT !.last_col = input.col, !.col = @ + 1]
                ELSE [input EXCEPT !.phase = "write",
                                   !.col = IF input.last_col > 1
                                           THEN input.last_col + 1 ELSE 2]
    /\ UNCHANGED <<world, sheetExists, grid, prev, src, result, trace, op, again, calls,
                   toolCalls>>

\* Lines 272 and 282: the column found is cleared.
ClearStep ==
    /\ op = "running"
    /\ input.phase = "clear"
    /\ grid' = ClearColumn(grid, input.col)
    /\ input' = [input EXCEPT !.phase = "write"]
    /\ UNCHANGED <<world, sheetExists, prev, src, result, trace, op, again, calls,
                   toolCalls>>

(* Line 275, or lines 285-295 for a server that is not connected: the       *)
(* column is written; a write that raises leaves what was written and its    *)
(* error is recorded by lines 297-298.                                       *)
WriteStep ==
    /\ op = "running"
    /\ input.phase = "write"
    /\ \E sv \in {Head(input.pending)} :
          /\ grid' = IF sv.status = "Connected"
                     THEN WriteServerColumn(grid, input.col, sv, sv.stop)
                     ELSE Put(Put(grid, HEADER_ROW, input.col, sv.name),
                              STATUS_ROW, input.col, sv.status)
          /\ result' = <<result[1], result[2],
                         IF sv.status # "Connected"
                         THEN Append(result[3],
                                     ErrorString(sv.name, IF sv.error # "" THEN sv.error
                                                          ELSE "Connection failed"))
                         ELSE IF sv.fail = "write"
                         THEN Append(result[3], ErrorString(sv.name, WriteError))
                         ELSE result[3]>>
          /\ trace' = Append(trace, [col |-> input.col, old |-> input.old,
                                     queried |-> sv.status = "Connected"])
    /\ input' = Pos(Advance(input.pending), "check", 0, 0, FALSE)
    /\ UNCHANGED <<world, sheetExists, prev, src, op, again, calls, toolCalls>>

\* Lines 300-303: the loop is over, update_sheet returns.
ReturnUpdate ==
    /\ op = "running"
    /\ input.phase = "check"
    /\ input.pending = <<>>
    /\ op' = "update_sheet"
    /\ UNCHANGED <<world, sheetExists, grid, prev, src, result, trace, again, calls,
                   input, toolCalls>>

\* A step of the running update_sheet.
RunStep ==
    CheckServer \/ FindStep \/ NextColumnStep \/ ClearStep \/ WriteStep \/ ReturnUpdate

NextSteps == BeginUpdate \/ RunStep

(* update_sheet runs on one thread and none of its calls blocks for ever:   *)
(* every CLI run ends or times out after 30 seconds (mcp_connector.py 57-63). *)
SpecSteps == InitIn("steps") /\ [][NextSteps]_vars /\ WF_vars(RunStep)

-----------------------------------------------------------------------------
(* json.loads and json.dumps on texts without escapes: objects, arrays,     *)
(* strings, unsigned integers, true, false and null, separated by blanks.   *)
(* A value is [t, s, items, keys]: t its type, s the text of a number, a    *)
(* string or a literal, items the elements of a list or the values of a     *)
(* dict, keys the keys of a dict.                                           *)

Char(str, i) == SubSeq(str, i, i)

Digits == "0123456789"
IsDigit(c) == \E i \in 1..Len(Digits) : Char(Digits, i) = c

JNum(text) == [t |-> "num", s |-> text, items |-> <<>>, keys |-> <<>>]
JStr(text) == [t |-> "str", s |-> text, items |-> <<>>, keys |-> <<>>]
JLit(text) == [t |-> "lit", s |-> text, items |-> <<>>, keys |-> <<>>]
JList(vals) == [t |-> "list", s |-> "", items |-> vals, keys |-> <<>>]
JDict(ks, vals) == [t |-> "dict", s |-> "", items |-> vals, keys |-> ks]

\* json.JSONDecodeError
DecodeError == [ok |-> FALSE, next |-> 0, val |-> JLit("null")]
Decoded(v, n) == [ok |-> TRUE, next |-> n, val |-> v]

RECURSIVE SkipBlanks(_, _)
SkipBlanks(str, i) ==
    IF i <= Len(str) /\ Char(str, i) = " " THEN SkipBlanks(str, i + 1) ELSE i

\* The first index from i on where str holds c, 0 when there is none.
RECURSIVE IndexOf(_, _, _)
IndexOf(str, c, i) ==
    IF i > Len(str) THEN 0
    ELSE IF Char(str, i) = c THEN i
    ELSE IndexOf(str, c, i + 1)

RECURSIVE DigitsEnd(_, _)
DigitsEnd(str, i) ==
    IF i <= Len(str) /\ IsDigit(Char(str, i)) THEN DigitsEnd(str, i + 1) ELSE i

ParseString(str, i) ==
    LET close == IndexOf(str, "\"", i + 1)
    IN  IF close = 0 THEN DecodeError
        ELSE Decoded(JStr(SubSeq(str, i + 1, close - 1)), close + 1)

\* An integer: a single 0, or a digit other than 0 followed by digits.
ParseNumber(str, i) ==
    LET end == IF Char(str, i) = "0" THEN i + 1 ELSE DigitsEnd(str, i)
    IN  Decoded(JNum(SubSeq(str, i, end - 1)), end)

ParseLiteral(str, i, text) ==
    IF i + Len(text) - 1 <= Len(str) /\ SubSeq(str, i, i + Len(text) - 1) = text
    THEN Decoded(JLit(text), i + Len(text))
    ELSE DecodeError

\* dict[key] = value: a key met again keeps its place and takes the new value.
DictPut(ks, vals, key, v) ==
    IF \E j \in 1..Len(ks) : ks[j] = key
    THEN [keys |-> ks,
          items |-> [j \in 1..Len(vals) |-> IF ks[j] = key THEN v ELSE vals[j]]]
    ELSE [keys |-> Append(ks, key), items |-> Append(vals, v)]

RECURSIVE ParseValue(_, _)
RECURSIVE ParseItems(_, _, _)
RECURSIVE ParseMembers(_, _, _, _)

\* The elements of an array from i on, after those of acc.
ParseItems(str, i, acc) ==
    LET v == ParseValue(str, i)
        j == SkipBlanks(str, v.next)
    IN  IF ~v.ok \/ j > Len(str) THEN DecodeError
        ELSE IF Char(str, j) = "," THEN ParseItems(str, j + 1, Append(acc, v.val))
        ELSE IF Char(str, j) = "]" THEN Decoded(JList(Append(acc, v.val)), j + 1)
        ELSE DecodeError

\* The members of an object from i on, after those of ks and vals.
ParseMembers(str, i, ks, vals) ==
    LET k0 == SkipBlanks(str, i)
    IN  IF k0 > Len(str) \/ Char(str, k0) # "\"" THEN DecodeError
        ELSE LET k == ParseString(str, k0)
                 c == SkipBlanks(str, k.next)
             IN  IF ~k.ok \/ c > Len(str) \/ Char(str, c) # ":" THEN DecodeError
                 ELSE LET v == ParseValue(str, c + 1)
                          j == SkipBlanks(str, v.next)
                          d == DictPut(ks, vals, k.val.s, v.val)
                      IN  IF ~v.ok \/ j > Len(str) THEN DecodeError
                          ELSE IF Char(str, j) = ","
                               THEN ParseMembers(str, j + 1, d.keys, d.items)
                          ELSE IF Char(str, j) = "}"
                               THEN Decoded(JDict(d.keys, d.items), j + 1)
                          ELSE DecodeError

ParseValue(str, i) ==
    LET j == SkipBlanks(str, i)
        c == Char(str, j)
    IN  IF j > Len(str) THEN DecodeError
        ELSE IF c = "\"" THEN ParseString(str, j)
        ELSE IF IsDigit(c) THEN ParseNumber(str, j)
        ELSE IF c = "t" THEN ParseLiteral(str, j, "true")
        ELSE IF c = "f" THEN ParseLiteral(str, j, "false")
        ELSE IF c = "n" THEN ParseLiteral(str, j, "null")
        ELSE IF c = "["
             THEN LET k == SkipBlanks(str, j + 1)
                  IN  IF k <= Len(str) /\ Char(str, k) = "]"
                      THEN Decoded(JList(<<>>), k + 1)
                      ELSE ParseItems(str, j + 1, <<>>)
        ELSE IF c = "{"
             THEN LET k == SkipBlanks(str, j + 1)
                  IN  IF k <= Len(str) /\ Char(str, k) = "}"
                      THEN Decoded(JDict(<<>>, <<>>), k + 1)
                      ELSE ParseMembers(str, j + 1, <<>>, <<>>)
        ELSE DecodeError

\* json.loads: the value, or DecodeError when str is not one JSON text.
JsonLoads(str) ==
    LET v == ParseValue(str, 1)
    IN  IF v.ok /\ SkipBlanks(str, v.next) = Len(str) + 1 THEN v ELSE DecodeError

\* The text of `between` put between the texts of l.
RECURSIVE Join(_, _)
Join(l, between) ==
    IF l = <<>> THEN ""
    ELSE IF Len(l) = 1 THEN l[1]
    ELSE l[1] \o between \o Join(Tail(l), between)

RECURSIVE Spaces(_)
Spaces(n) == IF n = 0 THEN "" ELSE " " \o Spaces(n - 1)

\* json.dumps(v, indent=2) at nesting depth `level`.
RECURSIVE JsonDumps(_, _)
JsonDumps(v, level) ==
    CASE v.t = "num" -> v.s
      [] v.t = "lit" -> v.s
      [] v.t = "str" -> "\"" \o v.s \o "\""
      [] v.t = "list" ->
            IF v.items = <<>> THEN "[]"
            ELSE "[\n"
                 \o Join([j \in 1..Len(v.items) |->
                            Spaces(2 * (level + 1)) \o JsonDumps(v.items[j], level + 1)],
                         ",\n")
                 \o "\n" \o Spaces(2 * level) \o "]"
      [] v.t = "dict" ->
            IF v.keys = <<>> THEN "{}"
            ELSE "{\n"
                 \o Join([j \in 1..Len(v.keys) |->
                            Spaces(2 * (level + 1)) \o "\"" \o v.keys[j] \o "\": "
                            \o JsonDumps(v.items[j], level + 1)],
                         ",\n")
                 \o "\n" \o Spaces(2 * level) \o "}"

-----------------------------------------------------------------------------
(* MCPConnector._execute_command.  A run of the CLI is                      *)
(*   [kind, returncode, stdout, stderr, message]                            *)
(* kind "exit": the process ended with returncode; "timeout":                *)
(* subprocess.TimeoutExpired; "notfound": FileNotFoundError; "exception":    *)
(* any other exception, str(e) being message.                                *)

Run(k, rc, out, err, msg) ==
    [kind |-> k, returncode |-> rc, stdout |-> out, stderr |-> err, message |-> msg]

Exit(rc, out, err) == Run("exit", rc, out, err, "")

\* The runs that are not an exit.
NoExit == {Run("timeout", 0, "", "", ""), Run("notfound", 0, "", "", ""),
           Run("exception", 0, "", "", "boom")}

\* _execute_command's dictionary; a key it does not set is None.
Failure(e) == [success |-> FALSE, data |-> JLit("null"), raw_output |-> None, error |-> e]

ExecuteCommand(run) ==
    CASE run.kind = "exit" /\ run.returncode = 0 ->
            [success |-> TRUE,
             data |-> IF SkipBlanks(run.stdout, 1) <= Len(run.stdout)
                         /\ JsonLoads(run.stdout).ok
                      THEN JsonLoads(run.stdout).val
                      ELSE JDict(<<>>, <<>>),
             raw_output |-> run.stdout,
             error |-> None]
      [] run.kind = "exit" /\ run.returncode # 0 ->
            Failure(IF run.stderr # "" THEN run.stderr ELSE run.stdout)
      [] run.kind = "timeout" -> Failure("Command timed out after 30 seconds")
      [] run.kind = "notfound" -> Failure("manus-mcp-cli not found at manus-mcp-cli")
      [] run.kind = "exception" -> Failure(run.message)

-----------------------------------------------------------------------------
(* mcp_call_tool and mcp_get_prompt of mcp_plugin.py *)

\* Lines 40-47 and 108-114: the text returned for the connector's result.
Rendered(res) ==
    IF res.success
    THEN IF res.data.t = "dict" THEN JsonDumps(res.data, 0) ELSE res.raw_output
    ELSE "ERROR: " \o res.error

\* Variant: the connector is called before the arguments are decoded.
Query_CallFirst(arguments, run) ==
    IF JsonLoads(arguments).ok
    THEN [issued |-> TRUE, text |-> Rendered(ExecuteCommand(run))]
    ELSE [issued |-> TRUE, text |-> "ERROR: Invalid JSON arguments"]

(* The body shared by mcp_call_tool and mcp_get_prompt: whether the         *)
(* connector was called, and the text returned.                              *)
Query(arguments, run) ==
    IF JsonLoads(arguments).ok
    THEN [issued |-> TRUE, text |-> Rendered(ExecuteCommand(run))]
    ELSE [issued |-> FALSE, text |-> "ERROR: Invalid JSON arguments"]

PluginCall(fn, server, name, arguments, run) ==
    \E q \in {Query(arguments, run)} :
        /\ result' = q.text
        /\ toolCalls' = IF q.issued
                        THEN Append(toolCalls, [fn |-> fn, server |-> server, name |-> name])
                        ELSE toolCalls
        /\ input' = [server |-> server, name |-> name, arguments |-> arguments]
        /\ prev' = [exists |-> sheetExists, grid |-> grid]
        /\ again' = FALSE
        /\ calls' = calls + 1
        /\ UNCHANGED <<world, sheetExists, grid, src, trace>>

\* The texts over the characters of chars, of length at most n.
RECURSIVE TextsOver(_, _)
TextsOver(chars, n) ==
    IF n = 0 THEN {""}
    ELSE LET shorter == TextsOver(chars, n - 1)
         IN  shorter \cup {t \o chars[i] : t \in shorter, i \in 1..Len(chars)}

MaxArgLen == 3

ArgChars == <<"{", "}", "[", "]", "\"", ":", ",", "1">>

ArgTexts ==
    TextsOver(ArgChars, MaxArgLen)
        \cup {"{\"a\": 1}", "{\"a\": 1", "{a: 1}", "{\"a\": 1} x", "not json", " {} "}

PluginRuns ==
    NoExit \cup {Exit(0, "{\"a\": 1}", ""), Exit(0, "[1]", ""), Exit(0, "done", ""),
                 Exit(1, "", "err"), Exit(1, "out", ""), Exit(1, "", "")}

McpCallTool ==
    /\ calls < CallsIn(world)
    /\ \E arguments \in ArgTexts, run \in PluginRuns :
          PluginCall("call_tool", "A", "t1", arguments, run)
    /\ op' = "mcp_call_tool"

McpGetPrompt ==
    /\ calls < CallsIn(world)
    /\ \E arguments \in ArgTexts, run \in PluginRuns :
          PluginCall("call_prompt", "A", "p1", arguments, run)
    /\ op' = "mcp_get_prompt"

NextPlugin == McpCallTool \/ McpGetPrompt

SpecPlugin == InitIn("plugin") /\ [][NextPlugin]_vars

-----------------------------------------------------------------------------
(* MCPConnector on the runs of the CLI. *)

\* bool(v) of a decoded value.
Truthy(v) ==
    CASE v.t = "num" -> v.s # "0"
      [] v.t = "str" -> v.s # ""
      [] v.t = "lit" -> v.s = "true"
      [] v.t = "list" -> v.items # <<>>
      [] v.t = "dict" -> v.keys # <<>>

HasKey(d, key) == \E j \in 1..Len(d.keys) : d.keys[j] = key

\* d.get(key, default) of a decoded dict.
DictGet(d, key, default) ==
    IF HasKey(d, key)
    THEN d.items[CHOOSE j \in 1..Len(d.keys) : d.keys[j] = key]
    ELSE default

\* The cell text of a capability name; names are strings in the runs drawn.
NameText(v) == IF v.t = "str" THEN v.s ELSE JsonDumps(v, 0)

\* Lines 192, 238, 284: the name of a dict item; a resource prefers its uri.
ItemName(item, section) ==
    IF section = "resources" /\ Truthy(DictGet(item, "uri", JLit("null")))
    THEN NameText(DictGet(item, "uri", JLit("null")))
    ELSE NameText(DictGet(item, "name", JStr("")))

\* A list call's outcome: the names listed, or an exception raised.
Names(l) == [raised |-> FALSE, names |-> l]
Raised == [raised |-> TRUE, names |-> <<>>]

\* The loop of lines 189-201 over a list: dicts and strings, the rest skipped.
RECURSIVE ListItems(_, _, _, _)
ListItems(items, section, j, acc) ==
    IF j > Len(items) THEN Names(acc)
    ELSE IF items[j].t = "dict"
         THEN ListItems(items, section, j + 1, Append(acc, ItemName(items[j], section)))
    ELSE IF items[j].t = "str"
         THEN ListItems(items, section, j + 1, Append(acc, items[j].s))
    ELSE ListItems(items, section, j + 1, acc)

(* The loop of lines 205-211 over data[section]: every element is asked for  *)
(* .get, which only a dict has; a number, a boolean or null cannot be        *)
(* iterated; a string or a dict yields its characters or keys, strings.      *)
EntryItems(entry, section) ==
    CASE entry.t = "list" ->
            IF \A j \in 1..Len(entry.items) : entry.items[j].t = "dict"
            THEN Names([j \in 1..Len(entry.items) |-> ItemName(entry.items[j], section)])
            ELSE Raised
      [] entry.t = "dict" -> IF entry.keys = <<>> THEN Names(<<>>) ELSE Raised
      [] entry.t = "str" -> IF entry.s = "" THEN Names(<<>>) ELSE Raised
      [] entry.t \in {"num", "lit"} -> Raised

\* list_tools, list_resources, list_prompts: section is "tools", "resources", "prompts".
\* The names a list call draws from _execute_command's dictionary res.
ListedIn(res, section) ==
    IF ~res.success THEN Names(<<>>)
    ELSE IF ~Truthy(res.data) THEN Names(<<>>)
    ELSE IF res.data.t = "list" THEN ListItems(res.data.items, section, 1, <<>>)
    ELSE IF res.data.t = "dict" /\ HasKey(res.data, section)
         THEN EntryItems(DictGet(res.data, section, JLit("null")), section)
    ELSE Names(<<>>)

ListSection(run, section) == ListedIn(ExecuteCommand(run), section)

\* Variant: a failed check still reports the server as Connected.
CheckServerConnection_AlwaysConnected(server_name, run) ==
    [name |-> server_name, status |-> "Connected", error_message |-> None]

\* check_server_connection
CheckServerConnection(server_name, run) ==
    LET res == ExecuteCommand(run)
    IN  IF res.success
        THEN [name |-> server_name, status |-> "Connected", error_message |-> None]
        ELSE [name |-> server_name, status |-> "Disconnected", error_message |-> res.error]

(* What the connector answers update_sheet about one server, from the runs  *)
(* raw = [name, check, tools, resources, prompts] of the CLI.  The text of   *)
(* an exception of get_all_capabilities is CapsError.                        *)
\* update_sheet's view of one server: its check and its three lists.
AnswerFrom(server, t, r, p) ==
    IF server.status # "Connected"
    THEN Answer(server.name, server.status, server.error_message, "none", 5,
                <<>>, <<>>, <<>>)
    ELSE IF t.raised \/ r.raised \/ p.raised
    THEN Answer(server.name, server.status, "", "caps", 5, <<>>, <<>>, <<>>)
    ELSE Answer(server.name, server.status, "", "none", 5, t.names, r.names, p.names)

Answered(raw) ==
    AnswerFrom(CheckServerConnection(raw.name, raw.check),
               ListSection(raw.tools, "tools"),
               ListSection(raw.resources, "resources"),
               ListSection(raw.prompts, "prompts"))

Quote(text) == "\"" \o text \o "\""

\* The runs of a list command that list nothing or one name in a known shape.
PlainRuns(name) == {Exit(0, "[]", ""), Exit(0, "[" \o Quote(name) \o "]", "")}

\* Other runs of the list command for `section`: more shapes, and failures.
OddRuns(section, name) ==
    NoExit
    \cup {Exit(1, "", "err"),
          Exit(0, "", ""),
          Exit(0, "not json", ""),
          Exit(0, "5", ""),
          Exit(0, "[1, null, [2]]", ""),
          Exit(0, "[{\"name\": " \o Quote(name) \o "}]", ""),
          Exit(0, "{" \o Quote(section) \o ": [{\"name\": " \o Quote(name) \o "}]}", ""),
          Exit(0, "{" \o Quote(section) \o ": [" \o Quote(name) \o "]}", ""),
          Exit(0, "{" \o Quote(section) \o ": 5}", ""),
          Exit(0, "{\"other\": [" \o Quote(name) \o "]}", "")}

CheckFailures ==
    NoExit \cup {Exit(1, "", "err"), Exit(1, "out", ""), Exit(1, "", "")}

Raw(n, c, t, r, p) == [name |-> n, check |-> c, tools |-> t, resources |-> r, prompts |-> p]

\* The runs about the servers `names`: at most one list command per server
\* has a run of OddRuns.
RawAnswers(names) ==
    {Raw(n, c, Exit(0, "[]", ""), Exit(0, "[]", ""), Exit(0, "[]", "")) :
        n \in names, c \in CheckFailures}
    \cup {Raw(n, Exit(0, "ok", ""), t, r, p) :
            n \in names, t \in PlainRuns("t1"), r \in PlainRuns("r1"), p \in PlainRuns("p1")}
    \cup {Raw(n, Exit(0, "ok", ""), t, r, p) :
            n \in names, t \in OddRuns("tools", "t1"), r \in PlainRuns("r1"),
            p \in PlainRuns("p1")}
    \cup {Raw(n, Exit(0, "ok", ""), t, r, p) :
            n \in names, t \in PlainRuns("t1"), r \in OddRuns("resources", "r1"),
            p \in PlainRuns("p1")}
    \cup {Raw(n, Exit(0, "ok", ""), t, r, p) :
            n \in names, t \in PlainRuns("t1"), r \in PlainRuns("r1"),
            p \in OddRuns("prompts", "p1")}

\* The runs about each server together with the connector's answer from them.
RawAnswered(names) == {[raw |-> x, answer |-> Answered(x)] : x \in RawAnswers(names)}

\* The runs of one update_sheet: distinct servers, in any order.
RawSources ==
    {l \in UNION {[1..k -> RawAnswered(ServerNames)] : k \in 0..MaxServers} :
        \A i, j \in 1..Len(l) : i # j => l[i].raw.name # l[j].raw.name}

UpdateFromRuns ==
    /\ calls < CallsIn(world)
    /\ \E l \in RawSources :
          /\ UpdateSheet([i \in 1..Len(l) |-> l[i].answer])
          /\ input' = [i \in 1..Len(l) |-> l[i].raw]

NextRuns == UpdateFromRuns

SpecRuns == InitIn("runs") /\ [][NextRuns]_vars

-----------------------------------------------------------------------------
(* Properties. *)

(* C1: after update_sheet, for every server Connected in this refresh and    *)
(* every data row whose column-1 label is a capability name n under section  *)
(* header S, the server's cell at that row holds the check mark if and only  *)
(* if the server's list for S contains n.                                    *)
C1_MarkCorrectness ==
    Updated =>
        \A i \in Listed : \A r \in LabelRows(grid) :
            LET S == SectionAbove(grid, r)
            IN  S # None =>
                    ((Get(grid, r, trace[i].col) = CHECK)
                        <=> (Get(grid, r, 1) \in Elems(ListFor(src[i], S))))

(* C2: a header cell that holds a server name keeps it through every         *)
(* update_sheet, and an update_sheet that writes that server writes it to    *)
(* the column that holds its name.                                           *)
C2_ColumnStability ==
    Updated =>
        /\ \A c \in HeaderCols(prev.grid) :
                Get(grid, HEADER_ROW, c) = Get(prev.grid, HEADER_ROW, c)
        /\ \A i \in 1..Len(src) : \A c \in HeaderCols(prev.grid) :
                (Get(prev.grid, HEADER_ROW, c) = src[i].name /\ trace[i].col # NoColumn)
                    => (trace[i].col = c /\ trace[i].old)

\* C2's case: a server written again to the column it had, behind a newer server's turn.
C2_Witness ==
    /\ Updated /\ calls = 2 /\ Len(src) = 2
    /\ trace[1].col = 3 /\ ~trace[1].old
    /\ trace[2].col = 2 /\ trace[2].old
    /\ Get(grid, HEADER_ROW, 2) = src[2].name
    /\ Get(prev.grid, HEADER_ROW, 2) = src[2].name

(* C3: a column-1 label, once written at row R, stays at row R: no           *)
(* update_sheet overwrites it with another name or a section header.         *)
C3_RowAppendOnly ==
    Updated =>
        \A r \in LabelRows(prev.grid) : Get(grid, r, 1) = Get(prev.grid, r, 1)

WrittenColumn(sv, col) ==
    ColumnFrom(WriteServerColumn(EmptyGrid, col, sv, 5), col, STATUS_ROW)

\* The capability names of all three lists of an answer.
AllCaps(sv) == Elems(sv.tools) \cup Elems(sv.resources) \cup Elems(sv.prompts)

C6_AbsentServersPreserved ==
    Updated =>
        \A c \in HeaderCols(prev.grid) :
            Get(prev.grid, HEADER_ROW, c) \notin SrcNames
                => ColumnFrom(grid, c, HEADER_ROW) = ColumnFrom(prev.grid, c, HEADER_ROW)

\* C6's case: a new server is written while an absent server's column holds marks.
C6_Witness ==
    /\ Updated
    /\ \E i \in Listed : ~trace[i].old /\ src[i].tools # <<>>
    /\ \E c \in HeaderCols(prev.grid) : \E r \in LabelRows(prev.grid) :
            /\ Get(prev.grid, HEADER_ROW, c) \notin SrcNames
            /\ Get(grid, r, c) = CHECK

\* The messages an error string can carry.
Messages == {CapsError, WriteError, "Connection failed", "e"}

\* The error strings about server n in the error list errs, in order.
AboutIn(errs, n) ==
    SelectSeq(errs, LAMBDA x : x \in {n \o ": " \o m : m \in Messages})

\* The error strings of the last result that are about server n.
ErrorsAbout(n) == AboutIn(result[3], n)

\* The list l without its i-th element.
Without(l, i) == [j \in 1..(Len(l) - 1) |-> IF j < i THEN l[j] ELSE l[j + 1]]

\* The servers of the last update_sheet whose processing raised.
Failing == {i \in 1..Len(src) : src[i].fail # "none"}

RaisedMessage(sv) == IF sv.fail = "caps" THEN CapsError ELSE WriteError

\* The last update_sheet, had the connector not listed the i-th server.
HadNotListed(i) == UpdateSheetResult(prev.exists, prev.grid, Without(src, i))

\* The answer sv has the server's header cell written.
HeaderWritten(sv) == sv.fail = "none" \/ (sv.fail = "write" /\ sv.stop >= 1)

(* Server j of the list without i (server k of src) got the column, the     *)
(* error strings and, when its header cell is written, the cells it gets in *)
(* alt, its column `shift` further right.                                   *)
SameProcessing(alt, j, k, shift) ==
    /\ trace[k].old = alt.trace[j].old
    /\ trace[k].queried = alt.trace[j].queried
    /\ IF alt.trace[j].col = NoColumn
       THEN trace[k].col = NoColumn
       ELSE /\ trace[k].col = alt.trace[j].col + shift
            /\ HeaderWritten(src[k]) =>
                    ColumnFrom(grid, trace[k].col, HEADER_ROW)
                        = ColumnFrom(alt.grid, alt.trace[j].col, HEADER_ROW)
    /\ ErrorsAbout(src[k].name) = AboutIn(alt.result[3], src[k].name)

OthersAsIfAbsent(i) ==
    LET alt == HadNotListed(i)
    IN  \A j \in 1..(Len(src) - 1) :
            SameProcessing(alt, j, IF j < i THEN j ELSE j + 1, 0)

\* The i-th server had no column and a write raised after its header cell was written.
KeepsNewColumn(i) == src[i].fail = "write" /\ src[i].stop >= 1 /\ ~trace[i].old

OthersShiftedBehind(i) ==
    LET alt == HadNotListed(i)
    IN  \A j \in 1..(Len(src) - 1) :
            LET k == IF j < i THEN j ELSE j + 1
            IN  SameProcessing(alt, j, k,
                    IF k > i /\ ~alt.trace[j].old /\ alt.trace[j].col # NoColumn
                    THEN 1 ELSE 0)

(* C7: when processing one server raises, update_sheet returns with one      *)
(* error string 'name: message' for it, and every other server of the list   *)
(* is processed exactly as if the failing server had not been in the list.   *)
C7_PerServerIsolation ==
    Updated =>
        \A i \in Failing :
            /\ ErrorsAbout(src[i].name)
                 = <<src[i].name \o ": " \o RaisedMessage(src[i])>>
            /\ OthersAsIfAbsent(i)

(* C7 as amended: ... exactly as if the failing server had not been in the   *)
(* list, except that a server without a column whose header cell was written *)
(* before a write raised keeps that column, and every server after it that   *)
(* has no column yet is written, with the same cells, one column to the      *)
(* right.                                                                    *)
C7_IsolationUpToColumnShift ==
    Updated =>
        \A i \in Failing :
            /\ ErrorsAbout(src[i].name)
                 = <<src[i].name \o ": " \o RaisedMessage(src[i])>>
            /\ IF KeepsNewColumn(i) THEN OthersShiftedBehind(i) ELSE OthersAsIfAbsent(i)

\* C7's case: a new server's write raises after its header; the next new server follows it.
C7_Witness ==
    /\ Updated /\ Len(src) = 2
    /\ KeepsNewColumn(1) /\ trace[1].col = 2
    /\ 2 \in Listed /\ ~trace[2].old /\ trace[2].col = 3 /\ src[2].tools # <<>>

(* C8: servers A, B, C in that order, A Connected with 2 tools, B's          *)
(* capability query raising with message m, C not connected without error    *)
(* detail: update_sheet returns (3, 1, <<"B: m", "C: Connection failed">>)   *)
(* and A's column is fully populated.                                        *)
C8_Scenario ==
    /\ Updated /\ Len(src) = 3
    /\ src[1].name = "A" /\ src[1].status = "Connected" /\ src[1].fail = "none"
    /\ Len(src[1].tools) = 2
    /\ src[2].name = "B" /\ src[2].status = "Connected" /\ src[2].fail = "caps"
    /\ src[3].name = "C" /\ src[3].status # "Connected" /\ src[3].error = ""

C8_RefreshResultUnderFailure ==
    C8_Scenario =>
        /\ result = <<3, 1, <<"B: " \o CapsError, "C: Connection failed">>>>
        /\ ColumnFrom(grid, trace[1].col, HEADER_ROW)
              = ColumnFrom(WriteServerColumn(EmptyGrid, trace[1].col, src[1], 5),
                           trace[1].col, HEADER_ROW)

(* C9: when discover_servers returns the empty list, update_sheet returns    *)
(* (0, 0, <<one error string>>) and changes no cell of a sheet that existed. *)
C9_EmptySource ==
    (Updated /\ src = <<>>) =>
        /\ result = <<0, 0, <<"No MCP servers found">>>>
        /\ prev.exists => grid = prev.grid

\* C9's case: an empty discovery on a sheet that holds a server's marks.
C9_Witness ==
    /\ Updated /\ src = <<>> /\ prev.exists
    /\ \E c \in HeaderCols(grid) : \E r \in LabelRows(grid) : Get(grid, r, c) = CHECK

-----------------------------------------------------------------------------
SectionSet == {SectionNames[k] : k \in 1..3}

\* The capability type the locator reports for a section header.
TypeOf(section) ==
    CASE section = "TOOLS" -> "tool"
      [] section = "RESOURCES" -> "resource"
      [] section = "PROMPTS" -> "prompt"

Located == op = "get_capability_at_cell"

\* The rows FIRST_DATA_ROW..row whose column-1 cell holds a section header.
HeadersUpTo(g, row) == {r \in FIRST_DATA_ROW..row : Get(g, r, 1) \in SectionSet}

Highest(rows) == CHOOSE r \in rows : \A q \in rows : q <= r

\* The sheet of the example: TOOLS at row 4, nothing at row 5, get_weather at
\* row 6, weather-mcp heading column 2.
WeatherExample ==
    /\ Get(grid, FIRST_DATA_ROW, 1) = "TOOLS"
    /\ Get(grid, FIRST_DATA_ROW + 1, 1) = None
    /\ Get(grid, FIRST_DATA_ROW + 2, 1) = "get_weather"
    /\ Get(grid, HEADER_ROW, 2) = "weather-mcp"

(* C11: get_capability_at_cell(row, col) returns None when the header cell  *)
(* of col is empty, when the column-1 cell of row is empty, or when no       *)
(* section header lies in column 1 between the first data row and row;       *)
(* otherwise it returns (header of col, type of the nearest section header   *)
(* at or above row, column-1 value of row), the type being tool, resource or *)
(* prompt.  On the example sheet locate(6,2) is (weather-mcp, tool,          *)
(* get_weather) and locate(5,2) is None.                                     *)
C11_LocatorResult ==
    Located =>
        LET row == input[1]
            col == input[2]
            s == Get(grid, HEADER_ROW, col)
            n == Get(grid, row, 1)
            hs == HeadersUpTo(grid, row)
        IN  /\ (s = None \/ n = None \/ hs = {}) => result = Nothing
            /\ (s # None /\ n # None /\ hs # {}) =>
                    result = <<s, TypeOf(Get(grid, Highest(hs), 1)), n>>
            /\ row < FIRST_DATA_ROW => result = Nothing
            /\ (WeatherExample /\ input = <<6, 2>>) =>
                    result = <<"weather-mcp", "tool", "get_weather">>
            /\ (WeatherExample /\ input = <<5, 2>>) => result = Nothing

C11_Witness ==
    /\ Located
    /\ WeatherExample
    /\ input = <<6, 2>>
    /\ result = <<"weather-mcp", "tool", "get_weather">>

-----------------------------------------------------------------------------
(* C12: get_capability_at_cell(row, col) returns None for every row that is  *)
(* a section-header row (column 1 holds TOOLS, RESOURCES or PROMPTS) or a    *)
(* separator row (column 1 empty), and for every col that is not a server    *)
(* column: column 1, or a column whose header cell is empty.                 *)
C12_LocatorRejectsNonCapabilityCells ==
    Located =>
        LET row == input[1]
            col == input[2]
        IN  (\/ Get(grid, row, 1) \in SectionSet
             \/ Get(grid, row, 1) = None
             \/ col = 1
             \/ Get(grid, HEADER_ROW, col) = None) => result = Nothing

-----------------------------------------------------------------------------
Cleared == op = "clear_sheet"

\* The sheet right after _initialize_sheet_structure on an empty sheet.
FreshLayout == (<<HEADER_ROW, 1>> :> "Capability Type") @@ (<<STATUS_ROW, 1>> :> "Status")

\* The column update_sheet gives the first server it writes, NoColumn when it
\* writes none.
FirstColumnWritten(tr) ==
    IF \E i \in 1..Len(tr) : tr[i].col # NoColumn
    THEN tr[CHOOSE i \in 1..Len(tr) :
                /\ tr[i].col # NoColumn
                /\ \A j \in 1..(i - 1) : tr[j].col = NoColumn].col
    ELSE NoColumn

(* C13: after clear_sheet on an existing sheet the grid holds the two labels *)
(* 'Capability Type' in A1 and 'Status' in A2 and nothing else, and the      *)
(* first server a following update_sheet writes gets column 2; when the      *)
(* sheet does not exist clear_sheet changes nothing and creates no sheet.    *)
C13_Clear ==
    Cleared =>
        /\ prev.exists =>
            /\ sheetExists
            /\ grid = FreshLayout
            /\ \A servers \in SourcesIn(world) :
                  FirstColumnWritten(UpdateSheetResult(sheetExists, grid, servers).trace)
                      \in {NoColumn, 2}
        /\ ~prev.exists => (~sheetExists /\ grid = prev.grid)

C13_Witness ==
    /\ Cleared
    /\ prev.exists
    /\ HeaderCols(prev.grid) # {}
    /\ \E p \in DOMAIN prev.grid : prev.grid[p] = CHECK
    /\ grid = FreshLayout

Ensured == op = "ensure_sheet_exists"

\* The header cell holds the layout marker.
HasMarkers(exists, g) == exists /\ Get(g, HEADER_ROW, 1) # None

(* C14: ensure_sheet_exists writes the 'Capability Type' and 'Status' labels *)
(* whenever the header cell holds no layout marker (the sheet is missing, or *)
(* it exists with an empty header cell), changes no cell when the markers    *)
(* are present, leaves the same grid when called a second time, and removes  *)
(* no cell outside the two label cells.                                      *)
C14_EnsureLayout ==
    Ensured =>
        /\ sheetExists
        /\ ~HasMarkers(prev.exists, prev.grid) =>
              /\ Get(grid, HEADER_ROW, 1) = "Capability Type"
              /\ Get(grid, STATUS_ROW, 1) = "Status"
        /\ HasMarkers(prev.exists, prev.grid) => grid = prev.grid
        /\ EnsureSheetExists(sheetExists, grid) = grid
        /\ \A q \in DOMAIN prev.grid :
              q \notin {<<HEADER_ROW, 1>>, <<STATUS_ROW, 1>>} => Get(grid, q[1], q[2]) = prev.grid[q]

-----------------------------------------------------------------------------
Queried == op \in {"mcp_call_tool", "mcp_get_prompt"}

\* Texts that are not JSON, whatever the decoder says.
NotJson == {"", "{", "}", "{,}", "[1,", "{a: 1}", "{\"a\": 1", "{\"a\": 1} x", "not json"}

(* C15: when mcp_call_tool or mcp_get_prompt is given arguments that are    *)
(* not valid JSON it returns exactly 'ERROR: Invalid JSON arguments',       *)
(* issues no call_tool or call_prompt to the connector, and changes no      *)
(* cell of the sheet.                                                       *)
C15_ArgumentDecodingFailure ==
    Queried =>
        ((input.arguments \in NotJson \/ ~JsonLoads(input.arguments).ok) =>
            /\ result = "ERROR: Invalid JSON arguments"
            /\ toolCalls = <<>>
            /\ grid = prev.grid
            /\ sheetExists = prev.exists)

C15_Witness ==
    /\ op = "mcp_get_prompt"
    /\ input.arguments = "{\"a\": 1"
    /\ result = "ERROR: Invalid JSON arguments"
    /\ toolCalls = <<>>

-----------------------------------------------------------------------------
\* The error strings of errs that begin with the name n and a colon.
AboutName(errs, n) ==
    SelectSeq(errs, LAMBDA x : /\ Len(x) >= Len(n) + 2
                               /\ SubSeq(x, 1, Len(n) + 2) = n \o ": ")

\* The run of the CLI did not end with exit code 0.
Failed(run) == run.kind # "exit" \/ run.returncode # 0

\* The error detail of a failed run.
Detail(run) ==
    CASE run.kind = "timeout" -> "Command timed out after 30 seconds"
      [] run.kind = "notfound" -> "manus-mcp-cli not found at manus-mcp-cli"
      [] run.kind = "exception" -> run.message
      [] run.kind = "exit" -> IF run.stderr # "" THEN run.stderr ELSE run.stdout

(* C16: whatever way the CLI call of check_server_connection fails           *)
(* (timeout, executable not found, non-zero exit, another exception), the    *)
(* server comes back Disconnected with the failure's error detail;           *)
(* update_sheet writes its name and that status, records exactly one error   *)
(* string for it, and still processes every other server of the list.        *)
C16_SourceUnreachable ==
    Updated =>
        \A i \in 1..Len(input) :
            Failed(input[i].check) =>
                /\ src[i].status \in {"Disconnected", "Error"}
                /\ src[i].error = Detail(input[i].check)
                /\ trace[i].col # NoColumn
                /\ Get(grid, HEADER_ROW, trace[i].col) = src[i].name
                /\ Get(grid, STATUS_ROW, trace[i].col) = src[i].status
                /\ Len(AboutName(result[3], src[i].name)) = 1
                /\ Len(trace) = Len(input)
                /\ result[1] = Len(input)
                /\ \A j \in 1..Len(input) :
                      (j # i /\ ~Failed(input[j].check)) =>
                          /\ trace[j].queried
                          /\ src[j].fail = "none" =>
                                /\ Get(grid, HEADER_ROW, trace[j].col) = src[j].name
                                /\ Get(grid, STATUS_ROW, trace[j].col) = "Connected"

\* C16's case: the first server's check times out and the second server is written.
C16_Witness ==
    /\ Updated
    /\ Len(input) = 2
    /\ input[1].check.kind = "timeout"
    /\ ~Failed(input[2].check)
    /\ src[2].tools # <<>>
    /\ Get(grid, STATUS_ROW, 2) = "Disconnected"
    /\ Get(grid, STATUS_ROW, 3) = "Connected"

\* The key of a section in the CLI's answers.
SectionKey(k) == <<"tools", "resources", "prompts">>[k]

RunFor(raw, k) == <<raw.tools, raw.resources, raw.prompts>>[k]

(* The response of a list command is a failure, is not JSON, or is JSON of   *)
(* an unexpected shape: a scalar, a list none of whose items is a dict or a  *)
(* string, a dict without the section's key, or a dict whose entry for the   *)
(* section is not a list of dicts.                                           *)
Malformed(run, section) ==
    \/ Failed(run)
    \/ ~JsonLoads(run.stdout).ok
    \/ LET v == JsonLoads(run.stdout).val
       IN  \/ v.t \in {"num", "str", "lit"}
           \/ /\ v.t = "list"
              /\ v.items # <<>>
              /\ \A j \in 1..Len(v.items) : v.items[j].t \notin {"dict", "str"}
           \/ /\ v.t = "dict"
              /\ \/ ~HasKey(v, section)
                 \/ DictGet(v, section, v).t # "list"
                 \/ \E j \in 1..Len(DictGet(v, section, v).items) :
                        DictGet(v, section, v).items[j].t # "dict"

\* The row at which _write_server_column puts the header of section k for sv.
SectionRow(sv, k) ==
    CASE k = 1 -> FIRST_DATA_ROW
      [] k = 2 -> FIRST_DATA_ROW + 1 + Len(sv.tools) + 1
      [] k = 3 -> FIRST_DATA_ROW + 1 + Len(sv.tools) + 1 + 1 + Len(sv.resources) + 1

(* C17: when the response to list_tools, list_resources or list_prompts is   *)
(* malformed, no exception is raised and the section's list is empty: the    *)
(* server is written as Connected with the '-' placeholder at the section's  *)
(* header row and no error string is recorded for it.                        *)
C17_MalformedResponse ==
    Updated =>
        \A i \in 1..Len(input) : \A k \in 1..3 :
            (~Failed(input[i].check) /\ Malformed(RunFor(input[i], k), SectionKey(k))) =>
                /\ src[i].fail = "none"
                /\ ListFor(src[i], SectionNames[k]) = <<>>
                /\ Get(grid, HEADER_ROW, trace[i].col) = src[i].name
                /\ Get(grid, STATUS_ROW, trace[i].col) = "Connected"
                /\ Get(grid, SectionRow(src[i], k), trace[i].col) = DASH
                /\ AboutName(result[3], src[i].name) = <<>>

-----------------------------------------------------------------------------
\* The rows from FIRST_DATA_ROW down whose column-1 cell holds `value`.
RowsHolding(g, value) ==
    {p[1] : p \in {q \in DOMAIN g : q[2] = 1 /\ q[1] >= FIRST_DATA_ROW /\ g[q] = value}}

\* The rows from FIRST_DATA_ROW down whose column-1 cell is not empty.
UsedRows(g) == {p[1] : p \in {q \in DOMAIN g : q[2] = 1 /\ q[1] >= FIRST_DATA_ROW}}

Only(rows) == CHOOSE r \in rows : TRUE

\* The rows first..last of column 1 are a section: a header, labels below it
\* without a gap, and one empty row after them.
IsSection(g, section, first, last) ==
    /\ first < last
    /\ Get(g, first, 1) = section
    /\ \A r \in (first + 1)..(last - 1) : r \in LabelRows(g)
    /\ Get(g, last, 1) = None

(* C18: once a Connected server has been written (column 1 then holds a     *)
(* section header), column 1 from the first data row down consists of       *)
(* exactly one TOOLS, one RESOURCES and one PROMPTS header in that order,    *)
(* each followed by its label rows without a gap and then by exactly one    *)
(* empty separator row.                                                      *)
C18_SectionStructure ==
    (Updated /\ \E r \in UsedRows(grid) : Get(grid, r, 1) \in SectionSet) =>
        /\ \A k \in 1..3 : Cardinality(RowsHolding(grid, SectionNames[k])) = 1
        /\ LET tools == Only(RowsHolding(grid, "TOOLS"))
               resources == Only(RowsHolding(grid, "RESOURCES"))
               prompts == Only(RowsHolding(grid, "PROMPTS"))
               last == CHOOSE r \in UsedRows(grid) : \A q \in UsedRows(grid) : q <= r
           IN  /\ tools = FIRST_DATA_ROW
               /\ IsSection(grid, "TOOLS", tools, resources - 1)
               /\ IsSection(grid, "RESOURCES", resources, prompts - 1)
               /\ IsSection(grid, "PROMPTS", prompts, last + 1)

\* A label row of g holds `name` under the section header `section`.
HasLabel(g, section, name) ==
    \E r \in LabelRows(g) : Get(g, r, 1) = name /\ SectionAbove(g, r) = section

(* C19: no two rows of one section hold the same capability name, and every *)
(* (section, name) pair listed so far has a label row: the pairs of the     *)
(* servers written by this update_sheet, and the pairs that had a label row *)
(* before it.                                                                *)
C19_OneLabelRowPerCapability ==
    Updated =>
        /\ \A r1, r2 \in LabelRows(grid) :
              (/\ r1 # r2
               /\ Get(grid, r1, 1) = Get(grid, r2, 1)
               /\ SectionAbove(grid, r1) # None) =>
                    SectionAbove(grid, r1) # SectionAbove(grid, r2)
        /\ \A i \in Listed : \A k \in 1..3 :
              \A name \in Elems(ListFor(src[i], SectionNames[k])) :
                  HasLabel(grid, SectionNames[k], name)
        /\ \A r \in LabelRows(prev.grid) :
              SectionAbove(prev.grid, r) # None =>
                  HasLabel(grid, SectionAbove(prev.grid, r), Get(prev.grid, r, 1))

\* The orders of a list of n elements.
Orders(n) == {f \in [1..n -> 1..n] : \A a, b \in 1..n : a # b => f[a] # f[b]}

Reordered(l, f) == [j \in 1..Len(l) |-> l[f[j]]]

(* C20: an update_sheet that finds the same servers with the same statuses  *)
(* and lists in another order gives the existing columns the same servers   *)
(* and leaves the same column-1 labels: run instead of the last             *)
(* update_sheet it ends with the same header row and the same column 1, and *)
(* run after it it changes no header cell and no column-1 cell.             *)
C20_OrderIndependence ==
    Updated =>
        \A f \in Orders(Len(src)) :
            LET instead == UpdateSheetResult(prev.exists, prev.grid, Reordered(src, f)).grid
                after == UpdateSheetResult(sheetExists, grid, Reordered(src, f)).grid
            IN  /\ \A c \in HeaderCols(prev.grid) :
                      Get(instead, HEADER_ROW, c) = Get(grid, HEADER_ROW, c)
                /\ \A r \in UsedRows(prev.grid) : Get(instead, r, 1) = Get(grid, r, 1)
                /\ \A c \in HeaderCols(grid) :
                      Get(after, HEADER_ROW, c) = Get(grid, HEADER_ROW, c)
                /\ \A r \in UsedRows(grid) : Get(after, r, 1) = Get(grid, r, 1)

\* The header cells of the server columns, as column -> name.
Headers(g) == [c \in HeaderCols(g) |-> Get(g, HEADER_ROW, c)]

\* The servers of the last update_sheet that a column was resolved for.
Placed == {i \in 1..Len(trace) : trace[i].col # NoColumn}

(* C21: after any sequence of update_sheet and clear_sheet calls the         *)
(* non-empty header cells of the server columns are the columns 2..k for     *)
(* some k, no two of them hold the same name, two servers of different names *)
(* (the empty name included) processed by one update_sheet never have the    *)
(* same column, a server's column is never column 1, and cell A1 holds no    *)
(* server name.                                                              *)
C21_HeaderRow ==
    /\ HeaderCols(grid) = 2..(Cardinality(HeaderCols(grid)) + 1)
    /\ \A c, d \in HeaderCols(grid) : c # d => Headers(grid)[c] # Headers(grid)[d]
    /\ op = "update_sheet" =>
          /\ \A i, j \in Placed : src[i].name # src[j].name => trace[i].col # trace[j].col
          /\ \A i \in Placed : trace[i].col >= 2
    /\ sheetExists => Get(grid, HEADER_ROW, 1) = "Capability Type"

\* The servers of the last update_sheet whose processing raised.
Raising == {i \in 1..Len(src) : src[i].fail # "none"}

\* The column whose header cell holds the name, NoColumn when there is none.
ColumnOf(g, name) == FindServerColumn(g, name)

(* C22: after an update_sheet in which the processing of server S raised     *)
(* (its capability retrieval or a later step), the column whose header holds *)
(* S's name has no non-empty cell below its status cell: no mark and no      *)
(* section marker, of this refresh or of an earlier one.                     *)
C22_NoPartialOrStaleColumn ==
    op = "update_sheet" =>
        \A i \in Raising :
            ColumnOf(grid, src[i].name) # NoColumn =>
                DOMAIN ColumnFrom(grid, ColumnOf(grid, src[i].name), STATUS_ROW + 1) = {}

\* Server i of the last update_sheet has a column showing its name and status.
Shown(i) ==
    \E c \in HeaderCols(grid) :
        /\ Get(grid, HEADER_ROW, c) = src[i].name
        /\ Get(grid, STATUS_ROW, c) = src[i].status

(* C23: after update_sheet returns, every server of the discovered list has *)
(* a column whose header cell holds its name and whose status cell holds the *)
(* status this refresh's connection check returned, Connected or not, and    *)
(* whether or not its capability retrieval succeeded.                        *)
C23_EveryServerShown ==
    op = "update_sheet" => \A i \in 1..Len(src) : Shown(i)

\* The error string update_sheet records for one server, <<>> when it records none.
ErrorsFor(sv) ==
    IF sv.status # "Connected"
    THEN <<ErrorString(sv.name, IF sv.error # "" THEN sv.error ELSE "Connection failed")>>
    ELSE IF sv.fail = "caps" THEN <<ErrorString(sv.name, CapsError)>>
    ELSE IF sv.fail = "write" THEN <<ErrorString(sv.name, WriteError)>>
    ELSE <<>>

\* The error strings of the servers, in the servers' order.
RECURSIVE ErrorsInOrder(_)
ErrorsInOrder(servers) ==
    IF servers = <<>> THEN <<>>
    ELSE ErrorsFor(Head(servers)) \o ErrorsInOrder(Tail(servers))

Running == op = "running"
Returned == op = "update_sheet"

\* update_sheet has returned what processing `src` in the source's order gives.
Completed ==
    /\ Returned
    /\ input.pending = <<>>
    /\ Len(trace) = Len(src)
    /\ grid = UpdateSheetResult(prev.exists, prev.grid, src).grid
    /\ result = UpdateSheetResult(prev.exists, prev.grid, src).result
    /\ trace = UpdateSheetResult(prev.exists, prev.grid, src).trace
    /\ src # <<>> => result[3] = ErrorsInOrder(src)
    /\ GetNextColumn(grid) = Cardinality(HeaderCols(grid)) + 2

(* C24: update_sheet runs to completion.  A running update_sheet eventually  *)
(* returns; by then it has visited every discovered server (one trace entry  *)
(* per server, none left to visit), the sheet and the result are those of    *)
(* processing the servers one after another in the source's order, the error *)
(* strings are those of the servers in that order, and the header scan ends  *)
(* one cell past the used header cells.                                      *)
C24_RunsToCompletion == Running ~> Completed

\* A refresh of a sheet written before has returned after one server was
\* found not connected and the processing of another raised.
C24_Witness ==
    /\ Returned
    /\ calls = MaxCalls
    /\ Len(src) = MaxServers
    /\ \E i, j \in 1..Len(src) : src[i].status # "Connected" /\ src[j].fail # "none"
    /\ Len(result[3]) = 2

\* c is the leftmost column from B on whose header cell is empty.
LeftmostFree(g, c) ==
    /\ c >= 2
    /\ Get(g, HEADER_ROW, c) = None
    /\ \A d \in 2..(c - 1) : Get(g, HEADER_ROW, d) # None

\* The servers of the last update_sheet that were given a new column.
NewlyPlaced == {i \in Placed : ~trace[i].old}

(* C25: on every sheet the program reaches, _get_next_column returns the    *)
(* leftmost column from B on whose header cell is empty, column 2 when no    *)
(* server column is used; and two servers given a new column by the same     *)
(* update_sheet never receive the same column.                               *)
C25_ColumnAllocation ==
    /\ LeftmostFree(grid, GetNextColumn(grid))
    /\ HeaderCols(grid) = {} => GetNextColumn(grid) = 2
    /\ op = "update_sheet" =>
          \A i, j \in NewlyPlaced : i # j => trace[i].col # trace[j].col

====
